---- MODULE Spec2Model ----
(***************************************************************************)
(* A model of the two-player UNO engine of src/uno.py: the deck, the       *)
(* legality rule, the three computer strategies and the turn loop of       *)
(* UNOGame.play_game.                                                      *)
(*                                                                         *)
(* The deck is the list the program keeps (draw_card pops its last         *)
(* element).  random.shuffle is an input of the model: a shuffle yields    *)
(* one of a bounded family of permutations (cuts of the list, each also    *)
(* reversed), every one of which random.shuffle can produce.  The deck is  *)
(* built by the loops of Deck._create_deck over a reduced range of colors, *)
(* numbers and copies so that a game reaches an empty deck within the      *)
(* bound on the number of turns.                                           *)
(***************************************************************************)
EXTENDS Integers, Sequences, FiniteSets

VARIABLES
    deck,                  \* Deck.cards: the draw pile, drawn from its end
    discard_pile,          \* UNOGame.discard_pile, top card last
    hands,                 \* hands[i] = players[i].hand, i = 0 human, 1 computer
    current_player_index,  \* UNOGame.current_player_index
    current_color,         \* UNOGame.current_color
    direction,             \* UNOGame.direction
    game_over,             \* UNOGame.game_over
    winner,                \* UNOGame.winner: a player index, or NoPlayer
    difficulty,            \* the Difficulty bound to the computer's AIStrategy
    pc,                    \* position in play_game
    turns,                 \* number of turns executed so far
    last,                  \* what the turn executed last did (history)
    call                   \* input and result of the last strategy call (history)

vars == <<deck, discard_pile, hands, current_player_index, current_color,
          direction, game_over, winner, difficulty, pc, turns, last, call>>

----------------------------------------------------------------------------
(* Bounds of the model *)

NumColors == 2
MaxNumber == 1
ActionCopies == 1
WildCopies == 1
HandSize == 3
MaxTurns == 6
NumCuts == 7

----------------------------------------------------------------------------
(* Cards *)

None == -1
NoPlayer == -1
NoHint == "<None>"

RealColors == <<"Red", "Blue", "Green", "Yellow">>

RealColorSet == {"Red", "Blue", "Green", "Yellow"}

WildTypes == {"Wild", "Wild Draw Four"}

Card(c, t, v) == [color |-> c, type |-> t, value |-> v]

NoCard == Card("None", "None", None)

RECURSIVE Flatten(_)
Flatten(ss) == IF ss = <<>> THEN <<>> ELSE Head(ss) \o Flatten(Tail(ss))

Reverse(s) == [i \in 1..Len(s) |-> s[Len(s) + 1 - i]]

RemoveAt(s, i) == SubSeq(s, 1, i - 1) \o SubSeq(s, i + 1, Len(s))

\* the first loop with two cards of the number 0 as well
NumberCards_two_zeros(c, maxNumber) ==
    Flatten([n \in 1..(maxNumber + 1) |->
               <<Card(c, "Number", n - 1), Card(c, "Number", n - 1)>>])

\* Deck._create_deck, first loop: one 0 and two of each higher number
NumberCards(c, maxNumber) ==
    <<Card(c, "Number", 0)>>
    \o Flatten([n \in 1..maxNumber |->
                  <<Card(c, "Number", n), Card(c, "Number", n)>>])

\* the second loop with twice as many rounds
ActionCards_four_rounds(c, copies) ==
    Flatten([i \in 1..(2 * copies) |->
               <<Card(c, "Skip", None), Card(c, "Reverse", None),
                 Card(c, "Draw Two", None)>>])

\* Deck._create_deck, second loop
ActionCards(c, copies) ==
    Flatten([i \in 1..copies |->
               <<Card(c, "Skip", None), Card(c, "Reverse", None),
                 Card(c, "Draw Two", None)>>])

\* Deck._create_deck, third loop
WildCards(copies) ==
    Flatten([i \in 1..copies |->
               <<Card("Wild", "Wild", None),
                 Card("Wild", "Wild Draw Four", None)>>])

create_deck(numColors, maxNumber, actionCopies, wildCopies) ==
    Flatten([i \in 1..numColors |-> NumberCards(RealColors[i], maxNumber)])
    \o Flatten([i \in 1..numColors |-> ActionCards(RealColors[i], actionCopies)])
    \o WildCards(wildCopies)

NewDeck == create_deck(NumColors, MaxNumber, ActionCopies, WildCopies)

\* the sizes of the loops of Deck._create_deck
DeckColors == 4
HighestNumber == 9
ActionRounds == 2
WildRounds == 4

\* the deck Deck._create_deck builds, before the shuffle
FullDeck == create_deck(DeckColors, HighestNumber, ActionRounds, WildRounds)

\* number of occurrences of c in the list s
CountIn(s, c) == Cardinality({i \in 1..Len(s) : s[i] = c})

\* Cutting the list at k: one permutation random.shuffle can produce
Cut(s, k) == SubSeq(s, k + 1, Len(s)) \o SubSeq(s, 1, k)

\* Deck.shuffle: the outcomes of random.shuffle the model draws from
shuffle(s) ==
    IF s = <<>> THEN {<<>>}
    ELSE LET cuts == {Cut(s, (j * Len(s)) \div NumCuts) : j \in 0..(NumCuts - 1)}
         IN  cuts \cup {Reverse(c) : c \in cuts}

----------------------------------------------------------------------------
(* Legality rule and Player queries *)

Human == 0
Computer == 1

\* can_play_on whose last test also applies to two Number cards
can_play_on_same_kind(card, other_card, color) ==
    IF card.type \in WildTypes THEN TRUE
    ELSE IF card.color = color THEN TRUE
    ELSE IF other_card.type = "Number" /\ card.type = "Number"
              /\ card.value = other_card.value
         THEN TRUE
    ELSE card.type = other_card.type

\* Card.can_play_on
can_play_on(card, other_card, color) ==
    IF card.type \in WildTypes THEN TRUE
    ELSE IF card.color = color THEN TRUE
    ELSE IF other_card.type = "Number" /\ card.type = "Number"
         THEN card.value = other_card.value
    ELSE card.type = other_card.type

\* Player.get_playable_cards, as the positions in the hand of the playable
\* cards, in hand order
get_playable_cards(hand, top_card, color) ==
    SelectSeq([i \in 1..Len(hand) |-> i],
              LAMBDA i : can_play_on(hand[i], top_card, color))

\* the cards at the given positions of a hand
CardsAt(hand, idx) == [k \in 1..Len(idx) |-> hand[idx[k]]]

\* position of the first TRUE of a list of truth values (0 when there is none)
FirstTrue(bs) ==
    IF \E i \in 1..Len(bs) : bs[i]
    THEN CHOOSE i \in 1..Len(bs) : bs[i] /\ \A j \in 1..(i - 1) : ~bs[j]
    ELSE 0

\* position of the first card of the list whose type is in types (0 when
\* there is none)
FirstOfTypes(cards, types) ==
    FirstTrue([i \in 1..Len(cards) |-> cards[i].type \in types])

----------------------------------------------------------------------------
(* Strategies: each returns [crash, idx, hint], idx a position in the      *)
(* playable list (1-based), hint the wild_color_hint                       *)

AggressiveTypes == {"Wild Draw Four", "Draw Two", "Skip"}

Choice(i, h) == [crash |-> FALSE, idx |-> i, hint |-> h]

Crash == [crash |-> TRUE, idx |-> 0, hint |-> NoHint]

\* AIStrategy._medium_ai_choice
PriorityOrder == <<"Wild Draw Four", "Draw Two", "Skip", "Reverse", "Wild">>

FirstOfType(playable, t) == FirstOfTypes(playable, {t})

\* max(number_cards, key=value): the first card of the highest value
MaxNumberCard(playable) ==
    CHOOSE i \in 1..Len(playable) :
        /\ playable[i].type = "Number"
        /\ \A j \in 1..Len(playable) :
               playable[j].type = "Number" =>
                   \/ playable[j].value < playable[i].value
                   \/ (playable[j].value = playable[i].value /\ i <= j)

\* _medium_ai_choice that takes the first card of any type of the priority
\* order instead of scanning the order type by type
medium_ai_choice_any_special(playable, opponent_cards) ==
    LET aggressive == FirstOfTypes(playable, AggressiveTypes)
        special == FirstOfTypes(playable, {PriorityOrder[k] : k \in 1..Len(PriorityOrder)})
    IN  IF opponent_cards = 1 /\ aggressive # 0 THEN Choice(aggressive, NoHint)
        ELSE IF special # 0 THEN Choice(special, NoHint)
        ELSE IF \E i \in 1..Len(playable) : playable[i].type = "Number"
             THEN Choice(MaxNumberCard(playable), NoHint)
        ELSE Choice(1, NoHint)

medium_ai_choice(playable, opponent_cards) ==
    LET aggressive == FirstOfTypes(playable, AggressiveTypes)
        prio == FirstTrue([k \in 1..Len(PriorityOrder) |->
                              FirstOfType(playable, PriorityOrder[k]) # 0])
    IN  IF opponent_cards = 1 /\ aggressive # 0 THEN Choice(aggressive, NoHint)
        ELSE IF prio # 0
             THEN Choice(FirstOfType(playable, PriorityOrder[prio]), NoHint)
        ELSE IF \E i \in 1..Len(playable) : playable[i].type = "Number"
             THEN Choice(MaxNumberCard(playable), NoHint)
        ELSE Choice(1, NoHint)

\* AIStrategy._easy_ai_choice: coin is random.random() < 0.3; the result is
\* the set random.choice can return
easy_ai_choice(playable, coin) ==
    LET all == 1..Len(playable)
        non_action == {i \in all : playable[i].type \notin AggressiveTypes}
    IN  IF coin /\ Len(playable) > 1 /\ non_action # {}
        THEN {Choice(i, NoHint) : i \in non_action}
        ELSE {Choice(i, NoHint) : i \in all}

----------------------------------------------------------------------------
(* The remote policy.  A reply is what the call to the service comes to:   *)
(*   timeout, error  requests.post raises                                  *)
(*   status          a status code other than 200                          *)
(*   no_candidates   a 200 body without candidates[0].content.parts[0]     *)
(*   not_json        the text is not JSON                                  *)
(*   no_index        the text is JSON without the key card_index           *)
(*   scalar          the text is a JSON number                             *)
(*   object          a JSON object with card_index (and maybe wild_color)  *)
(* card_index is a JSON value: an integer, a float, a string or null.      *)

MaxReplyIndex == 3

IntIndex(n) == [t |-> "int", v |-> n]

IndexValues ==
    {IntIndex(n) : n \in (-1)..MaxReplyIndex}
    \cup {[t |-> "float", v |-> 0], [t |-> "str", v |-> 0], [t |-> "null", v |-> 0]}

\* wild_color values: absent/null, the empty string, color names, another
\* string, a non-empty list
HintValues == {NoHint, "", "Red", "Blue", "Green", "Yellow", "Purple", "<list>"}

Replies ==
    {[kind |-> k, index |-> IntIndex(0), wild |-> NoHint] :
        k \in {"timeout", "error", "status", "no_candidates", "not_json",
               "no_index", "scalar"}}
    \cup {[kind |-> "object", index |-> ix, wild |-> h] :
            ix \in IndexValues, h \in HintValues}

Decision(ix, h) == [raised |-> FALSE, card_index |-> ix, wild_color |-> h]

Raised == [raised |-> TRUE, card_index |-> IntIndex(0), wild_color |-> NoHint]

\* _fallback_choice that looks for a Draw Two before any other card
fallback_choice_draw_two(playable, opponent_cards) ==
    LET draw_two == FirstOfTypes(playable, {"Draw Two"})
        aggressive == FirstOfTypes(playable, AggressiveTypes)
    IN  IF opponent_cards = 1 /\ draw_two # 0
        THEN Decision(IntIndex(draw_two - 1), "Red")
        ELSE IF opponent_cards = 1 /\ aggressive # 0
             THEN Decision(IntIndex(aggressive - 1), "Red")
        ELSE Decision(IntIndex(0), "Red")

\* GeminiAI._fallback_choice (card_index is 0-based, as in the source)
fallback_choice(playable, opponent_cards) ==
    LET aggressive == FirstOfTypes(playable, AggressiveTypes)
    IN  IF opponent_cards = 1 /\ aggressive # 0
        THEN Decision(IntIndex(aggressive - 1), "Red")
        ELSE Decision(IntIndex(0), "Red")

\* GeminiAI._parse_ai_response: JSONDecodeError and ValueError are caught
\* there, the TypeError of ('card_index' in <number>) is not
parse_ai_response(reply) ==
    IF reply.kind = "object" THEN Decision(reply.index, reply.wild)
    ELSE IF reply.kind \in {"not_json", "no_index"}
         THEN Decision(IntIndex(0), NoHint)
    ELSE Raised

\* GeminiAI.get_card_choice
get_card_choice(playable, opponent_cards, reply) ==
    IF reply.kind \in {"timeout", "error", "no_candidates"}
    THEN fallback_choice(playable, opponent_cards)
    ELSE IF reply.kind = "status"
         THEN fallback_choice(playable, opponent_cards)
    ELSE IF parse_ai_response(reply).raised
         THEN fallback_choice(playable, opponent_cards)
    ELSE parse_ai_response(reply)

\* AIStrategy._hard_ai_choice: comparing a string or None with 0 raises
\* TypeError, and so does indexing the list with a float
hard_ai_choice(playable, opponent_cards, reply) ==
    LET d == get_card_choice(playable, opponent_cards, reply)
        ci == d.card_index
    IN  IF ci.t \in {"str", "null"} THEN Crash
        ELSE IF 0 <= ci.v /\ ci.v < Len(playable)
             THEN IF ci.t = "float" THEN Crash
                  ELSE Choice(ci.v + 1, d.wild_color)
        ELSE Choice(1, NoHint)

\* AIStrategy.choose_card: the set of results over the random draws of the
\* Easy policy and the replies of the remote service
choose_card(diff, playable, opponent_cards) ==
    IF diff = "Hard"
    THEN {hard_ai_choice(playable, opponent_cards, r) : r \in Replies}
    ELSE IF diff = "Medium"
         THEN {medium_ai_choice(playable, opponent_cards)}
    ELSE UNION {easy_ai_choice(playable, coin) : coin \in BOOLEAN}

\* Python truth value of a hint
Truthy(hint) == hint \notin {NoHint, ""}

\* color_map.get raises TypeError for an unhashable key
Unhashable(hint) == hint = "<list>"

CountColor(hand, c) == Cardinality({i \in 1..Len(hand) : hand[i].color = c})

\* choose_wild_color with Color.WILD as the default of color_map.get
choose_wild_color_default_wild(hand, hint) ==
    IF Truthy(hint)
    THEN IF hint \in RealColorSet THEN hint ELSE "Wild"
    ELSE RealColors[CHOOSE i \in 1..4 :
            \A j \in 1..4 :
                \/ CountColor(hand, RealColors[j]) < CountColor(hand, RealColors[i])
                \/ (CountColor(hand, RealColors[j]) = CountColor(hand, RealColors[i])
                    /\ i <= j)]

\* AIStrategy.choose_wild_color; max() returns the first maximum in the
\* order of the keys Red, Blue, Green, Yellow
choose_wild_color(hand, hint) ==
    IF Truthy(hint)
    THEN IF hint \in RealColorSet THEN hint ELSE "Red"
    ELSE RealColors[CHOOSE i \in 1..4 :
            \A j \in 1..4 :
                \/ CountColor(hand, RealColors[j]) < CountColor(hand, RealColors[i])
                \/ (CountColor(hand, RealColors[j]) = CountColor(hand, RealColors[i])
                    /\ i <= j)]

----------------------------------------------------------------------------
(* The engine.  Its operations act on a record g of the game's fields; the *)
(* fields played, drew, forced, moves and inputs record what one turn did. *)

Difficulties == {"Easy", "Medium", "Hard"}

\* the fields of the UNOGame object, with an empty record of the turn
Game ==
    [deck |-> deck, discard_pile |-> discard_pile, hands |-> hands,
     cur |-> current_player_index, color |-> current_color, dir |-> direction,
     over |-> game_over, winner |-> winner, crashed |-> FALSE, hung |-> FALSE,
     played |-> NoCard, drew |-> NoCard, forced |-> 0, moves |-> 0,
     inputs |-> <<>>]

\* UNOGame.get_top_card
get_top_card(g) ==
    IF g.discard_pile = <<>> THEN NoCard ELSE g.discard_pile[Len(g.discard_pile)]

\* next_player that resets an index out of range to 0 instead of wrapping
next_player_clamped(g) ==
    [g EXCEPT !.cur = IF g.cur + g.dir \in {0, 1} THEN g.cur + g.dir ELSE 0,
              !.moves = @ + 1]

\* UNOGame.next_player (len(self.players) is 2)
next_player(g) ==
    [g EXCEPT !.cur = (g.cur + g.dir) % 2, !.moves = @ + 1]

\* UNOGame.reverse_direction
reverse_direction(g) == [g EXCEPT !.dir = (-1) * g.dir]

\* card = deck.draw_card(); if card: player.add_card(card)
draw_card(g, p) ==
    IF g.deck = <<>> THEN g
    ELSE [g EXCEPT !.deck = SubSeq(@, 1, Len(@) - 1),
                   !.hands[p] = Append(@, g.deck[Len(g.deck)])]

\* the loops of n forced draws in play_card
RECURSIVE forced_draws(_, _, _)
forced_draws(g, target, n) ==
    IF n = 0 THEN g
    ELSE forced_draws(IF g.deck = <<>> THEN g
                      ELSE [draw_card(g, target) EXCEPT !.forced = @ + 1],
                      target, n - 1)

\* the active color taken from the computer's hint for every card played
set_color_hint_first(g, p, card, hint, color_choice) ==
    IF p = Computer /\ hint \in RealColorSet
    THEN [g EXCEPT !.color = hint]
    ELSE IF card.type \in WildTypes
         THEN [g EXCEPT !.color = IF p = Computer
                                  THEN choose_wild_color(g.hands[p], hint)
                                  ELSE color_choice]
    ELSE [g EXCEPT !.color = card.color]

\* play_card, lines 643-657: the active color after the play
set_color(g, p, card, hint, color_choice) ==
    IF card.type \in WildTypes
    THEN [g EXCEPT !.color = IF p = Computer
                             THEN choose_wild_color(g.hands[p], hint)
                             ELSE color_choice]
    ELSE [g EXCEPT !.color = card.color]

\* apply_effect with a Skip that does not move to the next player
apply_effect_no_skip(g, card) ==
    IF card.type = "Reverse" THEN reverse_direction(g)
    ELSE IF card.type = "Draw Two"
         THEN forced_draws(next_player(g), next_player(g).cur, 2)
    ELSE IF card.type = "Wild Draw Four"
         THEN forced_draws(next_player(g), next_player(g).cur, 4)
    ELSE g

\* apply_effect with a Skip that also makes the skipped player draw a card
apply_effect_skip_draws(g, card) ==
    IF card.type = "Skip" THEN forced_draws(next_player(g), next_player(g).cur, 1)
    ELSE IF card.type = "Reverse" THEN reverse_direction(g)
    ELSE IF card.type = "Draw Two"
         THEN forced_draws(next_player(g), next_player(g).cur, 2)
    ELSE IF card.type = "Wild Draw Four"
         THEN forced_draws(next_player(g), next_player(g).cur, 4)
    ELSE g

\* play_card, lines 659-684: the effect of the card's type
apply_effect(g, card) ==
    IF card.type = "Skip" THEN next_player(g)
    ELSE IF card.type = "Reverse" THEN reverse_direction(g)
    ELSE IF card.type = "Draw Two"
         THEN forced_draws(next_player(g), next_player(g).cur, 2)
    ELSE IF card.type = "Wild Draw Four"
         THEN forced_draws(next_player(g), next_player(g).cur, 4)
    ELSE g

\* check_win that never ends the game
check_win_never(g, p) == g

\* check_win that records the other player as the winner
check_win_other(g, p) ==
    IF g.hands[p] = <<>> THEN [g EXCEPT !.over = TRUE, !.winner = 1 - p] ELSE g

\* play_card, lines 686-688
check_win(g, p) ==
    IF g.hands[p] = <<>> THEN [g EXCEPT !.over = TRUE, !.winner = p] ELSE g

\* play_card that tests for the win before the card's effect and skips the
\* effect of a winning card
play_card_win_first(g, p, i, hint, color_choice) ==
    LET card == g.hands[p][i]
        g1 == [g EXCEPT !.hands[p] = RemoveAt(@, i),
                        !.discard_pile = Append(@, card),
                        !.played = card]
        g2 == set_color(g1, p, card, hint, color_choice)
    IN  IF card.type \in WildTypes /\ p = Computer /\ Truthy(hint) /\ Unhashable(hint)
        THEN [g1 EXCEPT !.crashed = TRUE]
        ELSE IF g2.hands[p] = <<>> THEN check_win(g2, p)
        ELSE apply_effect(g2, card)

\* UNOGame.play_card: player p plays the card at position i of its hand;
\* color_choice is the color a human enters at the prompt
play_card(g, p, i, hint, color_choice) ==
    LET card == g.hands[p][i]
        g1 == [g EXCEPT !.hands[p] = RemoveAt(@, i),
                        !.discard_pile = Append(@, card),
                        !.played = card]
    IN  IF card.type \in WildTypes /\ p = Computer /\ Truthy(hint) /\ Unhashable(hint)
        THEN [g1 EXCEPT !.crashed = TRUE]
        ELSE check_win(apply_effect(set_color(g1, p, card, hint, color_choice), card), p)

\* What the human types at a prompt.  The prompts are "card" (a card number
\* or 'd'), "drawn" (y/n for a drawn card) and "color" (a color letter); n is
\* the number of playable cards shown
CardTokens(n) == {"d", "x", "0"} \cup {"1", "2", "3", "4", "5", "6", "7", "8", "9"}

DrawnTokens == {"y", "n", "x"}

ColorTokens == {"R", "B", "G", "Y", "x"}

\* int(choice) of a token made of one digit; "x" raises ValueError
IntOf(tok) ==
    CASE tok = "0" -> 0 [] tok = "1" -> 1 [] tok = "2" -> 2 [] tok = "3" -> 3
      [] tok = "4" -> 4 [] tok = "5" -> 5 [] tok = "6" -> 6 [] tok = "7" -> 7
      [] tok = "8" -> 8 [] tok = "9" -> 9 [] OTHER -> None

\* the token is one the prompt's message asks for
ValidToken(prompt, tok, n) ==
    IF prompt = "card" THEN tok = "d" \/ (IntOf(tok) # None /\ IntOf(tok) \in 1..n)
    ELSE IF prompt = "drawn" THEN tok \in {"y", "n"}
    ELSE tok \in {"R", "B", "G", "Y"}

\* color_map of the color prompt
ColorOf(tok) ==
    CASE tok = "R" -> "Red" [] tok = "B" -> "Blue" [] tok = "G" -> "Green"
      [] tok = "Y" -> "Yellow"

\* one answer consumed by a turn
Answer(prompt, tok, n) == [prompt |-> prompt, valid |-> ValidToken(prompt, tok, n)]

\* the answers consumed by the while loop of a prompt that ends with tok:
\* tok alone, or a token the loop rejects and then tok
Loop(prompt, rejected, tok, n) ==
    {<<Answer(prompt, tok, n)>>}
    \cup {<<Answer(prompt, bad, n), Answer(prompt, tok, n)>> : bad \in rejected}

\* play_card by the human, with the loop of the color prompt for a wild card
human_play(g, p, i, inputs) ==
    IF g.hands[p][i].type \in WildTypes
    THEN UNION {{[play_card(g, p, i, NoHint, ColorOf(tok)) EXCEPT !.inputs = inputs \o l] :
                    l \in Loop("color", {t \in ColorTokens : t \notin {"R", "B", "G", "Y"}},
                               tok, 0)} :
                  tok \in {"R", "B", "G", "Y"}}
    ELSE {[play_card(g, p, i, NoHint, "Red") EXCEPT !.inputs = inputs]}

\* human_turn, lines 550-562 and 573-585: draw a card; if it is legal the
\* answer to the y/n prompt is read once, and only 'y' plays the card
human_draw(g, p, inputs) ==
    LET new_card == g.deck[Len(g.deck)]
        g1 == [draw_card(g, p) EXCEPT !.drew = new_card]
    IN  IF g.deck = <<>> THEN {[g EXCEPT !.inputs = inputs]}
        ELSE IF can_play_on(new_card, get_top_card(g), g.color)
             THEN UNION {IF tok = "y"
                         THEN human_play(g1, p, Len(g1.hands[p]),
                                         inputs \o <<Answer("drawn", tok, 0)>>)
                         ELSE {[g1 EXCEPT !.inputs = inputs \o <<Answer("drawn", tok, 0)>>]} :
                           tok \in DrawnTokens}
        ELSE {[g1 EXCEPT !.inputs = inputs]}

\* UNOGame.human_turn: the set of outcomes over the tokens typed at its
\* prompts; the loop of the card prompt rejects a number out of range and a
\* token that is not a number
human_turn(g, p) ==
    LET playable == get_playable_cards(g.hands[p], get_top_card(g), g.color)
        n == Len(playable)
        rejected == {t \in CardTokens(n) : ~ValidToken("card", t, n)}
    IN  IF playable = <<>> THEN human_draw(g, p, <<>>)
        ELSE UNION {UNION {IF tok = "d" THEN human_draw(g, p, l)
                           ELSE human_play(g, p, playable[IntOf(tok)], l) :
                             l \in Loop("card", rejected, tok, n)} :
                      tok \in {t \in CardTokens(n) : ValidToken("card", t, n)}}

\* computer_turn that keeps a drawn card in hand, legal or not
computer_turn_keeps_drawn(g, p, diff) ==
    LET playable == get_playable_cards(g.hands[p], get_top_card(g), g.color)
        new_card == g.deck[Len(g.deck)]
        g1 == [draw_card(g, p) EXCEPT !.drew = new_card]
        opponent == g.hands[1 - g.cur]
        results == choose_card(diff, CardsAt(g.hands[p], playable), Len(opponent))
    IN  IF playable = <<>>
        THEN IF g.deck = <<>> THEN {g} ELSE {g1}
        ELSE {IF r.crash THEN [g EXCEPT !.crashed = TRUE]
              ELSE play_card(g, p, playable[r.idx], r.hint, "Red") : r \in results}

\* computer_turn that plays the card it drew without testing its legality
computer_turn_plays_drawn(g, p, diff) ==
    LET playable == get_playable_cards(g.hands[p], get_top_card(g), g.color)
        new_card == g.deck[Len(g.deck)]
        g1 == [draw_card(g, p) EXCEPT !.drew = new_card]
        opponent == g.hands[1 - g.cur]
        results == choose_card(diff, CardsAt(g.hands[p], playable), Len(opponent))
    IN  IF playable = <<>>
        THEN IF g.deck = <<>> THEN {g}
             ELSE {play_card(g1, p, Len(g1.hands[p]), NoHint, "Red")}
        ELSE {IF r.crash THEN [g EXCEPT !.crashed = TRUE]
              ELSE play_card(g, p, playable[r.idx], r.hint, "Red") : r \in results}

\* computer_turn whose draw pops the deck without testing it for emptiness
computer_turn_pops_empty(g, p, diff) ==
    LET playable == get_playable_cards(g.hands[p], get_top_card(g), g.color)
        new_card == g.deck[Len(g.deck)]
        g1 == [draw_card(g, p) EXCEPT !.drew = new_card]
        opponent == g.hands[1 - g.cur]
        results == choose_card(diff, CardsAt(g.hands[p], playable), Len(opponent))
    IN  IF playable = <<>>
        THEN IF g.deck = <<>> THEN {[g EXCEPT !.crashed = TRUE]}
             ELSE IF can_play_on(new_card, get_top_card(g), g.color)
                  THEN {play_card(g1, p, Len(g1.hands[p]), NoHint, "Red")}
             ELSE {g1}
        ELSE {IF r.crash THEN [g EXCEPT !.crashed = TRUE]
              ELSE play_card(g, p, playable[r.idx], r.hint, "Red") : r \in results}

\* UNOGame.computer_turn: the set of outcomes over the strategy's results
computer_turn(g, p, diff) ==
    LET playable == get_playable_cards(g.hands[p], get_top_card(g), g.color)
        new_card == g.deck[Len(g.deck)]
        g1 == [draw_card(g, p) EXCEPT !.drew = new_card]
        opponent == g.hands[1 - g.cur]
        results == choose_card(diff, CardsAt(g.hands[p], playable), Len(opponent))
    IN  IF playable = <<>>
        THEN IF g.deck = <<>> THEN {g}
             ELSE IF can_play_on(new_card, get_top_card(g), g.color)
                  THEN {play_card(g1, p, Len(g1.hands[p]), NoHint, "Red")}
             ELSE {g1}
        ELSE {IF r.crash THEN [g EXCEPT !.crashed = TRUE]
              ELSE play_card(g, p, playable[r.idx], r.hint, "Red") : r \in results}

\* setup_game, lines 475-479: HandSize rounds of one card to each player
RECURSIVE deal(_, _)
deal(g, n) ==
    IF n = 0 THEN g ELSE deal(draw_card(draw_card(g, Human), Computer), n - 1)

\* the first discard taken from the deck whatever its type
first_card_takes_wild(g) ==
    IF g.deck = <<>> THEN [g EXCEPT !.hung = TRUE]
    ELSE [g EXCEPT !.deck = SubSeq(@, 1, Len(@) - 1),
                   !.discard_pile = Append(@, g.deck[Len(g.deck)]),
                   !.color = g.deck[Len(g.deck)].color]

\* setup_game, lines 481-486: draw until the card is not a wild one; the
\* loop does not end once the deck is empty
RECURSIVE first_card(_)
first_card(g) ==
    IF g.deck = <<>> THEN [g EXCEPT !.hung = TRUE]
    ELSE LET top_card == g.deck[Len(g.deck)]
             rest == [g EXCEPT !.deck = SubSeq(@, 1, Len(@) - 1)]
         IN  IF top_card.type \notin WildTypes
             THEN [rest EXCEPT !.discard_pile = Append(@, top_card),
                               !.color = top_card.color]
             ELSE first_card(rest)

\* the reshuffled deck without the bottom card of the discard pile
reshuffled_without_bottom(g) ==
    Reverse(SubSeq(g.discard_pile, 2, Len(g.discard_pile) - 1)) \o g.deck

\* play_game, lines 706-711: the deck after the cards below the top of the
\* discard pile were each inserted at its front (before the shuffle)
reshuffled(g) ==
    Reverse(SubSeq(g.discard_pile, 1, Len(g.discard_pile) - 1)) \o g.deck

----------------------------------------------------------------------------
(* State machine *)

NoLast == [actor |-> NoPlayer, played |-> NoCard, drew |-> NoCard,
           forced |-> 0, moves |-> 0, dir |-> 1, inputs |-> <<>>]

NoCall == [stage |-> "none"]

\* Deck.__init__ and UNOGame.__init__
Init ==
    /\ deck \in shuffle(NewDeck)
    /\ discard_pile = <<>>
    /\ hands = [i \in {Human, Computer} |-> <<>>]
    /\ current_player_index = 0
    /\ current_color = "None"
    /\ direction = 1
    /\ game_over = FALSE
    /\ winner = NoPlayer
    /\ difficulty = "None"
    /\ pc = "setup"
    /\ turns = 0
    /\ last = NoLast
    /\ call = NoCall

\* the fields of the game after an operation that led to g
Becomes(g) ==
    /\ deck' = g.deck
    /\ discard_pile' = g.discard_pile
    /\ hands' = g.hands
    /\ current_player_index' = g.cur
    /\ current_color' = g.color
    /\ direction' = g.dir
    /\ game_over' = g.over
    /\ winner' = g.winner

\* UNOGame.setup_game: the difficulty is the player's selection
SetupGame ==
    /\ pc = "setup"
    /\ \E d \in Difficulties :
          LET g == first_card(deal(Game, HandSize))
          IN  /\ difficulty' = d
              /\ Becomes(g)
              /\ pc' = IF g.hung THEN "hung" ELSE "turn"
    /\ UNCHANGED <<turns, last, call>>

\* play_game, lines 696-701: one turn of the current player
Turn ==
    /\ pc = "turn"
    /\ turns < MaxTurns
    /\ \E g \in (IF current_player_index = Computer
                 THEN computer_turn(Game, Computer, difficulty)
                 ELSE human_turn(Game, Human)) :
          /\ Becomes(g)
          /\ last' = [actor |-> current_player_index, played |-> g.played,
                      drew |-> g.drew, forced |-> g.forced, moves |-> g.moves,
                      dir |-> direction, inputs |-> g.inputs]
          /\ pc' = IF g.crashed THEN "crashed" ELSE "advance"
    /\ turns' = turns + 1
    /\ UNCHANGED <<difficulty, call>>

\* the end-of-turn advance left out when the card's effect moved the pointer
AdvanceOnce ==
    /\ pc = "advance"
    /\ Becomes(IF ~game_over /\ last.moves = 0 THEN next_player(Game) ELSE Game)
    /\ last' = [last EXCEPT !.moves = IF ~game_over /\ last.moves = 0 THEN @ + 1 ELSE @]
    /\ pc' = "reshuffle"
    /\ UNCHANGED <<difficulty, turns, call>>

\* play_game, lines 703-704
Advance ==
    /\ pc = "advance"
    /\ Becomes(IF ~game_over THEN next_player(Game) ELSE Game)
    /\ last' = [last EXCEPT !.moves = IF ~game_over THEN @ + 1 ELSE @]
    /\ pc' = "reshuffle"
    /\ UNCHANGED <<difficulty, turns, call>>

\* a reshuffle that keeps the bottom card of the discard pile and moves the
\* rest, the top card included, to the deck
ReshuffleKeepsBottom ==
    /\ pc = "reshuffle"
    /\ IF deck = <<>> /\ Len(discard_pile) > 1
       THEN /\ deck' \in shuffle(Reverse(Tail(discard_pile)))
            /\ discard_pile' = <<Head(discard_pile)>>
       ELSE UNCHANGED <<deck, discard_pile>>
    /\ pc' = IF game_over THEN "done" ELSE "turn"
    /\ UNCHANGED <<hands, current_player_index, current_color, direction,
                   game_over, winner, difficulty, turns, last, call>>

\* play_game, lines 706-712, and the test of the while loop
Reshuffle ==
    /\ pc = "reshuffle"
    /\ IF deck = <<>> /\ Len(discard_pile) > 1
       THEN /\ deck' \in shuffle(reshuffled(Game))
            /\ discard_pile' = <<get_top_card(Game)>>
       ELSE UNCHANGED <<deck, discard_pile>>
    /\ pc' = IF game_over THEN "done" ELSE "turn"
    /\ UNCHANGED <<hands, current_player_index, current_color, direction,
                   game_over, winner, difficulty, turns, last, call>>

\* the strategy calls: playable lists the engine can pass (all legal on one
\* top card and color, no more copies of a card than the deck has)
MaxPlayable == 2
MaxOpponentCards == 2

DeckCards == {NewDeck[i] : i \in 1..Len(NewDeck)}

PlayableLists ==
    {s \in UNION {[1..n -> DeckCards] : n \in 1..MaxPlayable} :
        /\ \A i \in 1..Len(s) : CountIn(s, s[i]) <= CountIn(NewDeck, s[i])
        /\ \E top \in DeckCards, c \in RealColorSet :
               \A i \in 1..Len(s) : can_play_on(s[i], top, c)}

InitStrategy ==
    /\ deck = NewDeck
    /\ discard_pile = <<>>
    /\ hands = [i \in {Human, Computer} |-> <<>>]
    /\ current_player_index = 0
    /\ current_color = "None"
    /\ direction = 1
    /\ game_over = FALSE
    /\ winner = NoPlayer
    /\ difficulty = "None"
    /\ pc = "strategy"
    /\ turns = 0
    /\ last = NoLast
    /\ call = NoCall

\* AIStrategy._hard_ai_choice applied to a playable list, an opponent hand
\* size and a reply of the service
CallHard ==
    /\ pc = "strategy"
    /\ \E playable \in PlayableLists, n \in 1..MaxOpponentCards, r \in Replies :
          call' = [stage |-> "hard", playable |-> playable, opponent_cards |-> n,
                   reply |-> r, result |-> hard_ai_choice(playable, n, r)]
    /\ pc' = "called"
    /\ UNCHANGED <<deck, discard_pile, hands, current_player_index,
                   current_color, direction, game_over, winner, difficulty,
                   turns, last>>

\* AIStrategy._medium_ai_choice applied to a playable list and an opponent
\* hand size
CallMedium ==
    /\ pc = "strategy"
    /\ \E playable \in PlayableLists, n \in 1..MaxOpponentCards :
          call' = [stage |-> "medium", playable |-> playable, opponent_cards |-> n,
                   result |-> medium_ai_choice(playable, n)]
    /\ pc' = "called"
    /\ UNCHANGED <<deck, discard_pile, hands, current_player_index,
                   current_color, direction, game_over, winner, difficulty,
                   turns, last>>

\* the hands a wild color is chosen for: the cards left after the wild card
\* was removed, no more copies of a card than the deck has
MaxHand == 2

Hands ==
    {s \in UNION {[1..n -> DeckCards] : n \in 0..MaxHand} :
        \A i \in 1..Len(s) : CountIn(s, s[i]) <= CountIn(NewDeck, s[i])}

TypeError == "<TypeError>"

\* AIStrategy.choose_wild_color applied to a hand and a hint; the result is
\* the color returned, or TypeError when color_map.get raises it
CallWildColor ==
    /\ pc = "strategy"
    /\ \E hand \in Hands, hint \in HintValues :
          call' = [stage |-> "wild_color", hand |-> hand, hint |-> hint,
                   result |-> IF Truthy(hint) /\ Unhashable(hint) THEN TypeError
                              ELSE choose_wild_color(hand, hint)]
    /\ pc' = "called"
    /\ UNCHANGED <<deck, discard_pile, hands, current_player_index,
                   current_color, direction, game_over, winner, difficulty,
                   turns, last>>

\* Card.can_play_on applied to a card, a top card and an active color
CallCanPlay ==
    /\ pc = "strategy"
    /\ \E card \in DeckCards, other_card \in DeckCards, color \in RealColorSet :
          call' = [stage |-> "can_play", card |-> card, other_card |-> other_card,
                   color |-> color,
                   result |-> can_play_on(card, other_card, color)]
    /\ pc' = "called"
    /\ UNCHANGED <<deck, discard_pile, hands, current_player_index,
                   current_color, direction, game_over, winner, difficulty,
                   turns, last>>

\* AIStrategy._hard_ai_choice when requests.post raises Timeout
CallHardTimeout ==
    /\ pc = "strategy"
    /\ \E playable \in PlayableLists, n \in 1..MaxOpponentCards :
          LET r == [kind |-> "timeout", index |-> IntIndex(0), wild |-> NoHint]
          IN  call' = [stage |-> "hard", playable |-> playable, opponent_cards |-> n,
                       reply |-> r, result |-> hard_ai_choice(playable, n, r)]
    /\ pc' = "called"
    /\ UNCHANGED <<deck, discard_pile, hands, current_player_index,
                   current_color, direction, game_over, winner, difficulty,
                   turns, last>>

\* the remote policy over all replies of the service
NextStrategy == CallHard

\* the local policies and rules: the fallback on a timeout, the Medium
\* policy, the choice of a wild color and the legality rule
NextPolicy == CallHardTimeout \/ CallMedium \/ CallWildColor \/ CallCanPlay

SpecPolicy == InitStrategy /\ [][NextPolicy]_vars

SpecStrategy == InitStrategy /\ [][NextStrategy]_vars

\* the full deck: Deck.__init__ followed by calls of Deck.shuffle, and the
\* setup of a game on it
MaxShuffles == 3

InitDeck ==
    /\ deck \in shuffle(FullDeck)
    /\ discard_pile = <<>>
    /\ hands = [i \in {Human, Computer} |-> <<>>]
    /\ current_player_index = 0
    /\ current_color = "None"
    /\ direction = 1
    /\ game_over = FALSE
    /\ winner = NoPlayer
    /\ difficulty = "None"
    /\ pc = "deck"
    /\ turns = 0
    /\ last = NoLast
    /\ call = NoCall

\* Deck.shuffle
DeckShuffle ==
    /\ pc = "deck"
    /\ turns < MaxShuffles
    /\ deck' \in shuffle(deck)
    /\ turns' = turns + 1
    /\ UNCHANGED <<discard_pile, hands, current_player_index, current_color,
                   direction, game_over, winner, difficulty, pc, last, call>>

\* the number of rounds of the deal in setup_game
DealRounds == 7

\* UNOGame.setup_game on the full deck
SetupFullGame ==
    /\ pc = "deck"
    /\ \E d \in Difficulties :
          LET g == first_card(deal(Game, DealRounds))
          IN  /\ difficulty' = d
              /\ Becomes(g)
              /\ pc' = IF g.hung THEN "hung" ELSE "dealt"
    /\ UNCHANGED <<turns, last, call>>

NextDeck == DeckShuffle \/ SetupFullGame

SpecDeck == InitDeck /\ [][NextDeck]_vars

Next == SetupGame \/ Turn \/ Advance \/ Reshuffle

Spec == Init /\ [][Next]_vars

----------------------------------------------------------------------------
(* Properties of the turn loop.  In a state with pc = "turn" the turn that *)
(* is executed next is current_player_index's, and last describes the turn *)
(* executed before it.                                                     *)

AfterSetup == pc \in {"turn", "advance", "reshuffle", "done", "crashed"}

AfterTurn == pc \in {"advance", "reshuffle", "done"}

AdvancingTypes == {"Skip", "Draw Two", "Wild Draw Four"}

\* C1: with 2 players, after a player plays a Skip that does not empty its
\* hand, the next turn executed is that same player's
C1_SkipSamePlayer ==
    (pc = "turn" /\ last.played.type = "Skip")
        => current_player_index = last.actor

C1_Witness ==
    /\ pc = "turn"
    /\ last.played.type = "Skip"
    /\ hands[last.actor] # <<>>
    /\ current_player_index = last.actor

\* C2: with 2 players, after a player plays a Reverse that does not empty
\* its hand, the direction is flipped and the next turn executed is that
\* same player's, as after a Skip
C2_ReverseLikeSkip ==
    (pc = "turn" /\ last.played.type = "Reverse")
        => (direction = (-1) * last.dir /\ current_player_index = last.actor)

\* C3 as stated: in a turn where a Skip, Draw Two or Wild Draw Four is played
\* and the game is not over, the current-player pointer is moved exactly once
C3_SingleAdvance ==
    (pc = "reshuffle" /\ last.played.type \in AdvancingTypes /\ ~game_over)
        => last.moves = 1

\* C3 amended: in such a turn the pointer is moved exactly twice, once by the
\* card's effect and once by the end-of-turn advance, and so is back at the
\* player who played the card
C3_DoubleAdvance ==
    (pc = "reshuffle" /\ last.played.type \in AdvancingTypes /\ ~game_over)
        => (last.moves = 2 /\ current_player_index = last.actor)

C3_Witness ==
    /\ pc = "reshuffle"
    /\ last.played.type = "Draw Two"
    /\ ~game_over
    /\ last.moves = 2

AllCards == deck \o hands[Human] \o hands[Computer] \o discard_pile

\* C4: from the end of setup on, the deck, the hands and the discard pile
\* hold together as many cards as were constructed, and every constructed
\* card is in exactly one of them
C4_Conservation ==
    AfterSetup =>
        /\ Len(AllCards) = Len(NewDeck)
        /\ \A i \in 1..Len(NewDeck) :
               CountIn(AllCards, NewDeck[i]) = CountIn(NewDeck, NewDeck[i])

ForcedCount(card) ==
    IF card.type = "Draw Two" THEN 2
    ELSE IF card.type = "Wild Draw Four" THEN 4 ELSE 0

\* C5: the target of a Draw Two / Wild Draw Four receives fewer than 2 / 4
\* cards only when the deck and the discard pile below its top card are both
\* empty at the time of the missing draw (nothing left to reshuffle)
C5_ForcedDrawsReshuffle ==
    (pc = "advance" /\ last.forced < ForcedCount(last.played))
        => (deck = <<>> /\ Len(discard_pile) <= 1)

\* C6 as stated: a card the computer draws for lack of a playable card is
\* never played in the same turn
C6_DrawnNeverPlayed ==
    (pc = "advance" /\ last.actor = Computer /\ last.drew # NoCard)
        => last.played = NoCard

\* C6 amended: a card the computer draws for lack of a playable card is
\* played in the same turn exactly when it is legal on the top card and the
\* active color; otherwise the discard pile is unchanged and the card is kept
\* at the end of the hand
C6_DrawnPlayedIffLegal ==
    [][(pc = "turn" /\ current_player_index = Computer /\ last'.drew # NoCard)
        => IF can_play_on(last'.drew, get_top_card(Game), current_color)
           THEN /\ last'.played = last'.drew
                /\ discard_pile' = Append(discard_pile, last'.drew)
                /\ hands'[Computer] = hands[Computer]
           ELSE /\ last'.played = NoCard
                /\ discard_pile' = discard_pile
                /\ hands'[Computer] = Append(hands[Computer], last'.drew)]_vars

C6_Witness ==
    /\ pc = "advance"
    /\ last.actor = Computer
    /\ last.drew # NoCard
    /\ last.played = last.drew

\* C7: a play that empties the player's hand ends the game in that turn with
\* that player as winner, the end-of-turn advance is not performed (the
\* pointer moves only by the card's own effect), and no turn is executed
\* once the game is over
C7_WinEndsGame ==
    /\ (AfterTurn /\ last.played # NoCard /\ hands[last.actor] = <<>>)
           => (game_over /\ winner = last.actor)
    /\ game_over => (AfterTurn /\ hands[winner] = <<>>)
    /\ (game_over /\ pc \in {"reshuffle", "done"})
           => last.moves = (IF last.played.type \in AdvancingTypes THEN 1 ELSE 0)

C7_Witness ==
    /\ pc = "done"
    /\ game_over
    /\ winner = last.actor
    /\ last.played.type = "Number"

Min(a, b) == IF a < b THEN a ELSE b

\* C8: when the card that wins the game is a Draw Two or a Wild Draw Four the
\* opponent still draws the 2 or 4 cards from the end of the deck, as far as
\* the deck goes, and when it is a Reverse the direction is still flipped;
\* the player who played it is the winner
C8_WinningCardResolves ==
    [][(pc = "turn" /\ game_over')
        => LET card == last'.played
               opp == 1 - current_player_index
               k == Min(ForcedCount(card), Len(deck))
           IN  /\ winner' = current_player_index
               /\ hands'[opp] =
                      hands[opp] \o Reverse(SubSeq(deck, Len(deck) - k + 1, Len(deck)))
               /\ deck' = SubSeq(deck, 1, Len(deck) - k)
               /\ card.type = "Reverse" => direction' = (-1) * direction
               /\ card.type # "Reverse" => direction' = direction]_vars

C8_Witness ==
    /\ pc = "advance"
    /\ game_over
    /\ last.played.type = "Draw Two"
    /\ last.forced = 2

\* C9: from the end of setup on the active color is one of the four real
\* colors, whatever wild cards were played and whatever hint came with them
C9_ActiveColorReal == AfterSetup => current_color \in RealColorSet

C9_Witness ==
    /\ pc = "advance"
    /\ last.actor = Computer
    /\ difficulty = "Hard"
    /\ last.played.type \in WildTypes
    /\ current_color = "Yellow"

----------------------------------------------------------------------------
(* Properties of the strategies, under SpecStrategy *)

\* the replies C10 counts as a failure to obtain a usable reply
FailedReply(r, n) ==
    \/ r.kind \in {"timeout", "error", "status", "not_json"}
    \/ (r.kind = "object" /\ r.index.t = "int" /\ ~(0 <= r.index.v /\ r.index.v < n))

FirstAggressive(playable) == FirstOfTypes(playable, AggressiveTypes)

\* C10: whenever the remote policy fails to obtain a usable reply, the
\* decision is the first playable Wild Draw Four / Draw Two / Skip if the
\* opponent holds one card and there is one, else the first playable card,
\* and the wild-color hint is Red
C10_SameFallback ==
    (call.stage = "hard" /\ FailedReply(call.reply, Len(call.playable)))
        => call.result =
              Choice(IF call.opponent_cards = 1 /\ FirstAggressive(call.playable) # 0
                     THEN FirstAggressive(call.playable) ELSE 1,
                     "Red")

----------------------------------------------------------------------------
(* The remote policy in the game, under Spec, and the fallback, under       *)
(* SpecPolicy                                                              *)

\* C11: no reply of the remote service is fatal: a turn of the Hard computer
\* player never ends in a fault that leaves the turn loop
C11_NoFatalReply ==
    (difficulty = "Hard" /\ last.actor = Computer) => pc # "crashed"

\* C12 as stated: on a timeout with an opponent hand of 1 and a Draw Two
\* among the playable cards, the fallback choice is the Draw Two, wherever
\* it stands among the other playable cards
C12_DrawTwoOnTimeout ==
    (/\ call.stage = "hard"
     /\ call.reply.kind = "timeout"
     /\ call.opponent_cards = 1
     /\ FirstOfTypes(call.playable, {"Draw Two"}) # 0)
        => (/\ ~call.result.crash
            /\ call.playable[call.result.idx].type = "Draw Two")

\* C12 amended: in that case the fallback choice is the first playable card
\* that is a Wild Draw Four, a Draw Two or a Skip, with the hint Red; it is
\* the Draw Two exactly when no Wild Draw Four or Skip stands before it
C12_FirstAggressiveOnTimeout ==
    (/\ call.stage = "hard"
     /\ call.reply.kind = "timeout"
     /\ call.opponent_cards = 1
     /\ FirstOfTypes(call.playable, {"Draw Two"}) # 0)
        => (/\ call.result = Choice(FirstAggressive(call.playable), "Red")
            /\ (call.playable[call.result.idx].type = "Draw Two")
                   <=> (FirstOfTypes(call.playable, {"Draw Two"})
                           = FirstAggressive(call.playable)))

C12_Witness ==
    /\ call.stage = "hard"
    /\ call.reply.kind = "timeout"
    /\ call.opponent_cards = 1
    /\ FirstOfTypes(call.playable, {"Draw Two"}) = 2
    /\ call.playable[1].type = "Skip"
    /\ call.result = Choice(1, "Red")

\* the color with the highest count in the hand, the first such color in
\* the order Red, Blue, Green, Yellow
MostFrequentColor(hand) ==
    RealColors[CHOOSE i \in 1..4 :
        /\ \A j \in 1..4 : CountColor(hand, RealColors[j]) <= CountColor(hand, RealColors[i])
        /\ \A j \in 1..(i - 1) : CountColor(hand, RealColors[j]) < CountColor(hand, RealColors[i])]

\* C13: choose_wild_color returns the hint when the hint is one of the four
\* real color names, and for every other hint the color with the highest
\* count in the hand, the first maximum in the order Red, Blue, Green, Yellow
C13_WildColorChoice ==
    call.stage = "wild_color"
        => call.result = IF call.hint \in RealColorSet THEN call.hint
                         ELSE MostFrequentColor(call.hand)

----------------------------------------------------------------------------
(* The legality rule, under SpecPolicy *)

\* C14 as stated: can_play_on returns a truth value, and returns TRUE exactly
\* when the card is a wild one, or has the active color, or both cards are
\* Number cards of the same number, or both cards have the same type
C14_LegalIffAnyRule ==
    call.stage = "can_play"
        => /\ call.result \in BOOLEAN
           /\ call.result <=>
                 \/ call.card.type \in WildTypes
                 \/ call.card.color = call.color
                 \/ (/\ call.card.type = "Number"
                     /\ call.other_card.type = "Number"
                     /\ call.card.value = call.other_card.value)
                 \/ call.card.type = call.other_card.type

\* C14 amended: the equality of types makes a card legal only for types
\* other than Number; two Number cards of different numbers match by the
\* active color alone
C14_LegalIffRule ==
    call.stage = "can_play"
        => /\ call.result \in BOOLEAN
           /\ call.result <=>
                 \/ call.card.type \in WildTypes
                 \/ call.card.color = call.color
                 \/ (/\ call.card.type = "Number"
                     /\ call.other_card.type = "Number"
                     /\ call.card.value = call.other_card.value)
                 \/ (/\ call.card.type = call.other_card.type
                     /\ call.card.type # "Number")

C14_Witness ==
    /\ call.stage = "can_play"
    /\ call.card.type = "Number"
    /\ call.other_card.type = "Number"
    /\ call.card.value # call.other_card.value
    /\ call.card.color # call.color
    /\ call.result = FALSE

----------------------------------------------------------------------------
(* The Medium policy, under SpecPolicy *)

\* the first type of PriorityOrder of which the list has a card (0: none)
FirstPriority(playable) ==
    FirstTrue([k \in 1..Len(PriorityOrder) |->
                 \E i \in 1..Len(playable) : playable[i].type = PriorityOrder[k]])

\* C15: the Medium policy is a function of the playable list and the
\* opponent's hand size: with an opponent hand of 1 and a playable Wild Draw
\* Four, Draw Two or Skip it returns such a card; otherwise the first card of
\* the first type present in the order Wild Draw Four, Draw Two, Skip,
\* Reverse, Wild; with none of these the Number card of the highest number,
\* the first of them on a tie
C15_MediumChoice ==
    call.stage = "medium" =>
        LET playable == call.playable
            i == call.result.idx
            k == FirstPriority(playable)
        IN  /\ ~call.result.crash
            /\ i \in 1..Len(playable)
            /\ IF call.opponent_cards = 1
                  /\ \E j \in 1..Len(playable) : playable[j].type \in AggressiveTypes
               THEN playable[i].type \in AggressiveTypes
               ELSE IF k # 0
                    THEN /\ playable[i].type = PriorityOrder[k]
                         /\ \A j \in 1..(i - 1) : playable[j].type # PriorityOrder[k]
               ELSE /\ playable[i].type = "Number"
                    /\ \A j \in 1..Len(playable) : playable[j].value <= playable[i].value
                    /\ \A j \in 1..(i - 1) : playable[j].value < playable[i].value

C15_Witness ==
    /\ call.stage = "medium"
    /\ call.opponent_cards = 1
    /\ call.playable[1].type = "Skip"
    /\ Len(call.playable) = 2
    /\ call.playable[2].type = "Wild Draw Four"
    /\ call.result.idx = 1

----------------------------------------------------------------------------
(* The deck, under SpecDeck *)

\* number of cards of the list s of color c and type t
CountOf(s, c, t) ==
    Cardinality({i \in 1..Len(s) : s[i].color = c /\ s[i].type = t})

ActionTypes == {"Skip", "Reverse", "Draw Two"}

\* number of action cards of color c in the list s
CountActions(s, c) ==
    Cardinality({i \in 1..Len(s) : s[i].color = c /\ s[i].type \in ActionTypes})

\* C16: a freshly built deck has 108 cards; each real color has 19 Number
\* cards, one 0 and two of each of 1 to 9; there are 4 Wild and 4 Wild Draw
\* Four cards; a shuffle leaves this composition as it is
C16_DeckComposition ==
    pc = "deck" =>
        /\ Len(deck) = 108
        /\ \A c \in RealColorSet :
               /\ CountOf(deck, c, "Number") = 19
               /\ CountIn(deck, Card(c, "Number", 0)) = 1
               /\ \A n \in 1..9 : CountIn(deck, Card(c, "Number", n)) = 2
        /\ CountIn(deck, Card("Wild", "Wild", None)) = 4
        /\ CountIn(deck, Card("Wild", "Wild Draw Four", None)) = 4

C16_Witness ==
    /\ pc = "deck"
    /\ turns = MaxShuffles
    /\ deck # FullDeck
    /\ Len(deck) = 108
    /\ CountOf(deck, "Yellow", "Number") = 19

\* C17 as stated: a freshly built deck has 8 action cards (Skip, Reverse,
\* Draw Two) of each real color
C17_EightActionCards ==
    pc = "deck" => \A c \in RealColorSet : CountActions(deck, c) = 8

\* C17 amended: a freshly built deck has 6 action cards of each real color,
\* 2 each of Skip, Reverse and Draw Two
C17_SixActionCards ==
    pc = "deck" =>
        \A c \in RealColorSet :
            /\ CountActions(deck, c) = 6
            /\ \A t \in ActionTypes : CountOf(deck, c, t) = 2

C17_Witness ==
    /\ pc = "deck"
    /\ turns = 0
    /\ CountActions(deck, "Red") = 6
    /\ CountOf(deck, "Red", "Skip") = 2

----------------------------------------------------------------------------
(* Reshuffle and exhausted supply, under Spec *)

\* s and t hold the same cards, each as often
SameCards(s, t) ==
    /\ Len(s) = Len(t)
    /\ \A i \in 1..Len(s) : CountIn(s, s[i]) = CountIn(t, s[i])

\* C18: a reshuffle leaves the top card where it is: right after it the
\* discard pile is the former top card alone, the deck holds the cards that
\* were below it, and the active color, the direction, the hands, the
\* current player and the winner are as before
C18_ReshuffleKeepsTop ==
    [][(pc = "reshuffle" /\ deck = <<>> /\ Len(discard_pile) > 1)
        => /\ discard_pile' = <<discard_pile[Len(discard_pile)]>>
           /\ SameCards(deck', SubSeq(discard_pile, 1, Len(discard_pile) - 1))
           /\ current_color' = current_color
           /\ direction' = direction
           /\ hands' = hands
           /\ current_player_index' = current_player_index
           /\ game_over' = game_over
           /\ winner' = winner]_vars

C18_Witness ==
    /\ pc = "turn"
    /\ last.played # NoCard
    /\ discard_pile = <<last.played>>
    /\ deck # <<>>

\* the current player's playable cards at the beginning of a turn
PlayableNow ==
    get_playable_cards(hands[current_player_index], get_top_card(Game), current_color)

\* C19: with the deck empty and the discard pile holding its top card only,
\* a draw is a no-op: a turn that has to draw (no playable card, or no card
\* played) leaves the deck, the discard pile, the hands, the active color and
\* the direction as they are and ends normally, and the forced draws of a
\* Draw Two or Wild Draw Four add nothing to the target's hand; no fault
\* comes from a draw
C19_ExhaustedDrawNoOp ==
    [][(pc = "turn" /\ deck = <<>> /\ Len(discard_pile) = 1)
        => /\ (PlayableNow = <<>> \/ (last'.played = NoCard /\ pc' # "crashed"))
                  => /\ UNCHANGED <<deck, discard_pile, hands, current_color, direction>>
                     /\ last'.drew = NoCard
                     /\ last'.played = NoCard
                     /\ pc' = "advance"
           /\ last'.played.type \in {"Draw Two", "Wild Draw Four"}
                  => /\ last'.forced = 0
                     /\ deck' = <<>>
                     /\ hands'[1 - current_player_index] = hands[1 - current_player_index]
           /\ pc' = "crashed"
                  => /\ current_player_index = Computer
                     /\ difficulty = "Hard"
                     /\ PlayableNow # <<>>]_vars

C19_Witness ==
    /\ pc = "advance"
    /\ deck = <<>>
    /\ Len(discard_pile) = 1
    /\ last.played = NoCard
    /\ last.drew = NoCard

----------------------------------------------------------------------------
(* Human input, under Spec *)

\* C20: an invalid answer at a prompt of the human's turn (card choice, color
\* of a wild card, play of the drawn card) is not taken as a decision and
\* does not end the turn: the same prompt is asked again, so every invalid
\* answer a turn consumed is followed by another answer to the same prompt
C20_InvalidInputReprompted ==
    (pc = "advance" /\ last.actor = Human)
        => \A i \in 1..Len(last.inputs) :
               ~last.inputs[i].valid
                   => /\ i < Len(last.inputs)
                      /\ last.inputs[i + 1].prompt = last.inputs[i].prompt

----------------------------------------------------------------------------
(* Plays, turn order and active color, under Spec *)

\* C21: a card that a play moves onto the discard pile was in the current
\* player's hand right before the play (the card just drawn included) and
\* legal on the then top card and active color; this holds for the human's
\* selection, for the play of a drawn card (which is the card drawn from the
\* end of the deck) and for the card chosen by the Easy, Medium and Hard
\* strategy, which is one of the playable cards of a non-empty list
C21_PlayedFromHandAndLegal ==
    [][(pc = "turn" /\ last'.played # NoCard)
        => LET card == last'.played
               p == current_player_index
               hand == IF last'.drew # NoCard
                       THEN Append(hands[p], last'.drew) ELSE hands[p]
           IN  /\ \E i \in 1..Len(hand) :
                      hand[i] = card /\ hands'[p] = RemoveAt(hand, i)
               /\ can_play_on(card, get_top_card(Game), current_color)
               /\ discard_pile' = Append(discard_pile, card)
               /\ last'.drew # NoCard
                      => (card = last'.drew /\ card = deck[Len(deck)])
               /\ last'.drew = NoCard
                      => (/\ PlayableNow # <<>>
                          /\ \E k \in 1..Len(PlayableNow) :
                                 hands[p][PlayableNow[k]] = card)]_vars

C21_Witness ==
    /\ pc = "advance"
    /\ last.actor = Computer
    /\ difficulty = "Hard"
    /\ last.played.type = "Number"
    /\ last.drew = NoCard
    /\ discard_pile[Len(discard_pile)] = last.played

\* C22: with 2 players, after a turn in which a Number or Wild card is
\* played without emptying the hand, or no card is played, the next turn
\* executed is the opponent's, for the direction +1 and for -1
C22_OpponentNext ==
    (/\ pc = "turn"
     /\ last.actor # NoPlayer
     /\ (last.played = NoCard \/ last.played.type \in {"Number", "Wild"}))
        => current_player_index = 1 - last.actor

C22_Witness ==
    /\ pc = "turn"
    /\ direction = -1
    /\ last.actor = Human
    /\ last.played.type = "Wild"
    /\ current_player_index = Computer

\* C23: from the end of setup on, a top card of the discard pile that is
\* not a wild card has the active color: a play of such a card sets the
\* active color to its color whatever hint the strategy gave, and a
\* reshuffle keeps both
C23_ColorOfTopCard ==
    (AfterSetup /\ get_top_card(Game).type \notin WildTypes)
        => current_color = get_top_card(Game).color

C23_Witness ==
    /\ pc = "turn"
    /\ difficulty = "Hard"
    /\ last.actor = Computer
    /\ last.played.type = "Number"
    /\ last.played.color = "Blue"
    /\ discard_pile = <<last.played>>
    /\ current_color = "Blue"

----------------------------------------------------------------------------
(* Setup of the game on the full deck, under SpecDeck *)

\* C24: setup terminates, and after it each of the 2 players holds 7 cards,
\* the discard pile holds one card, which is not a wild card, the active
\* color is that card's color, the current player is player 0, the
\* direction is +1 and the game is not over
C24_SetupState ==
    pc # "deck" =>
        /\ pc = "dealt"
        /\ Len(hands[Human]) = 7
        /\ Len(hands[Computer]) = 7
        /\ Len(discard_pile) = 1
        /\ discard_pile[1].type \notin WildTypes
        /\ current_color = discard_pile[1].color
        /\ current_player_index = 0
        /\ direction = 1
        /\ ~game_over
        /\ winner = NoPlayer

C24_Witness ==
    /\ pc = "dealt"
    /\ Len(hands[Human]) = 7
    /\ Len(hands[Computer]) = 7
    /\ Len(discard_pile) = 1
    /\ Len(deck) < 93

----------------------------------------------------------------------------
(* Frame of a turn on the hands, under Spec *)

\* the deck of this state after the turn's own draw
DeckAfterDraw ==
    IF last'.drew # NoCard THEN SubSeq(deck, 1, Len(deck) - 1) ELSE deck

\* the other player's hand after a turn: the last'.forced cards at the end
\* of the deck added, no more than the card played asks for
OpponentFrame ==
    LET o == 1 - current_player_index
        k == last'.forced
        d == DeckAfterDraw
    IN  /\ k <= ForcedCount(last'.played)
        /\ k <= Len(d)
        /\ hands'[o] = hands[o] \o Reverse(SubSeq(d, Len(d) - k + 1, Len(d)))
        /\ deck' = SubSeq(d, 1, Len(d) - k)
        /\ last'.played.type \notin {"Draw Two", "Wild Draw Four"}
               => hands'[o] = hands[o]

\* the current player's hand after a turn with a play, a draw or both
ActiveFrame ==
    LET p == current_player_index
        card == last'.played
        drawn == last'.drew
    IN  \/ /\ card # NoCard /\ drawn = NoCard
           /\ \E i \in 1..Len(hands[p]) :
                  hands[p][i] = card /\ hands'[p] = RemoveAt(hands[p], i)
        \/ /\ card = NoCard /\ drawn # NoCard
           /\ drawn = deck[Len(deck)]
           /\ hands'[p] = Append(hands[p], drawn)
        \/ /\ card # NoCard /\ drawn # NoCard
           /\ drawn = deck[Len(deck)]
           /\ card = drawn
           /\ hands'[p] = hands[p]

\* the current player's hand after a turn without play and without draw
IdleFrame ==
    /\ last'.played = NoCard
    /\ last'.drew = NoCard
    /\ hands'[current_player_index] = hands[current_player_index]
    /\ (deck = <<>> \/ pc' = "crashed")

\* C25 as stated: a turn changes the other player's hand only when a Draw
\* Two or Wild Draw Four is played, by at most 2 or 4 cards from the deck,
\* and the current player's hand by one card removed (play), one card added
\* (draw) or one of each (draw, then play)
C25_HandsFrame ==
    [][pc = "turn" => (OpponentFrame /\ ActiveFrame)]_vars

\* C25 amended: as stated, except that the current player's hand is
\* unchanged in a turn without play and without draw, which is a turn that
\* has to draw from an empty deck or a turn of the Hard player that ends in
\* a fault before a card is played
C25_HandsFrameOrIdle ==
    [][pc = "turn" => (OpponentFrame /\ (ActiveFrame \/ IdleFrame))]_vars

C25_Witness ==
    /\ pc = "advance"
    /\ last.drew # NoCard
    /\ last.played = last.drew
    /\ last.played.type = "Draw Two"
    /\ last.forced = 2

----------------------------------------------------------------------------
(* End of the game and number of cards, under Spec *)

\* C26: from the end of setup on, the game is over exactly when a winner is
\* recorded, the winner's hand is empty, both hands are non-empty at the
\* start of a turn, the current-player index is 0 or 1 and the direction is
\* +1 or -1
C26_OverIffWinner ==
    AfterSetup =>
        /\ game_over <=> winner # NoPlayer
        /\ winner \in {NoPlayer, Human, Computer}
        /\ game_over => hands[winner] = <<>>
        /\ pc = "turn" => (/\ ~game_over
                           /\ hands[Human] # <<>>
                           /\ hands[Computer] # <<>>)
        /\ current_player_index \in {0, 1}
        /\ direction \in {1, -1}

C26_Witness ==
    /\ pc = "done"
    /\ game_over
    /\ winner = Computer
    /\ hands[Computer] = <<>>
    /\ hands[Human] # <<>>
    /\ direction = -1

\* number of cards in the deck, the discard pile and the two hands
TotalCards ==
    Len(deck) + Len(discard_pile) + Len(hands[Human]) + Len(hands[Computer])

\* C27: from the end of setup on the number of cards in the deck, the
\* discard pile and the hands together never changes: a turn draw, a forced
\* draw, a play and a reshuffle move cards and neither create nor drop one
C27_TotalConstant ==
    [][AfterSetup => TotalCards' = TotalCards]_vars

C27_Witness ==
    /\ pc = "turn"
    /\ turns > 1
    /\ last.forced > 0
    /\ Len(discard_pile) = 1
    /\ deck # <<>>
    /\ TotalCards < Len(NewDeck)

====
